---- MODULE Spec2Model ----
(***************************************************************************)
(* Model of linkedin_scraper.py: the retrying fetcher safe_get, the field  *)
(* extractor parse_generic_profile and the batch driver                    *)
(* scrape_public_profiles.                                                 *)
(*                                                                         *)
(* A Python str is a sequence of one-character strings; "" is <<>>.        *)
(* An optional value (None or a value) is a record [some, val].            *)
(* Sleeping is counted in whole seconds.                                   *)
(***************************************************************************)
EXTENDS Integers, Sequences, FiniteSets, TLC

\* ------------------------------------------------------------------ config
MIN_DELAY == 4
MAX_DELAY == 8
MAX_RETRIES == 3

\* ------------------------------------------------------------------ bounds
\* longest input file, in lines
MaxLines == 2
\* most elements in a markup given to the extractor
MaxElems == 2
\* longest text of one element, in characters
MaxTextLen == 1

Whitespace == {" "}
Chars == {" ", "a"}

RECURSIVE StrsUpTo(_)
StrsUpTo(n) ==
    IF n = 0 THEN {<<>>}
    ELSE LET shorter == StrsUpTo(n - 1)
         IN shorter \cup {Append(s, c) : s \in {t \in shorter : Len(t) = n - 1}, c \in Chars}

RECURSIVE SeqsUpTo(_, _)
SeqsUpTo(S, n) ==
    IF n = 0 THEN {<<>>}
    ELSE LET shorter == SeqsUpTo(S, n - 1)
         IN shorter \cup {Append(s, x) : s \in {t \in shorter : Len(t) = n - 1}, x \in S}

\* ------------------------------------------------------------------ values
None == [some |-> FALSE, val |-> <<>>]
Some(v) == [some |-> TRUE, val |-> v]

\* str.strip(): drop leading and trailing whitespace
RECURSIVE lstrip(_)
lstrip(s) ==
    IF s = <<>> THEN s
    ELSE IF Head(s) \in Whitespace THEN lstrip(Tail(s)) ELSE s

RECURSIVE rstrip(_)
rstrip(s) ==
    IF s = <<>> THEN s
    ELSE IF s[Len(s)] \in Whitespace THEN rstrip(SubSeq(s, 1, Len(s) - 1)) ELSE s

strip(s) == rstrip(lstrip(s))

\* " ".join(s.split()): runs of whitespace become one space, none at the ends
RECURSIVE squeeze(_)
squeeze(s) ==
    IF Len(s) < 2 THEN s
    ELSE IF s[1] \in Whitespace /\ s[2] \in Whitespace THEN squeeze(Tail(s))
    ELSE <<IF s[1] \in Whitespace THEN " " ELSE s[1]>> \o squeeze(Tail(s))

split_join(s) == squeeze(strip(s))

\* sep.join(parts)
RECURSIVE join(_, _)
join(sep, parts) ==
    IF parts = <<>> THEN <<>>
    ELSE IF Len(parts) = 1 THEN parts[1]
    ELSE parts[1] \o sep \o join(sep, Tail(parts))

\* ------------------------------------------------------------------ markup
\* A markup is the sequence, in document order, of the elements the extractor
\* can tell apart: sel is the selector the element matches ("other": none of
\* them), text the element's text.  The empty markup <<>> is the str "".
Selectors == {"name", "additionalName", "p-note", "homeLocation",
              "Counter", "flex-order-1", "other"}
Elements == [sel : Selectors, text : StrsUpTo(MaxTextLen)]
Markups == SeqsUpTo(Elements, MaxElems)

\* soup.select(sel): every match, in document order
select(soup, sel) == SelectSeq(soup, LAMBDA e : e.sel = sel)

\* soup.find(...): the first match, or None
find(soup, sel) ==
    LET hits == select(soup, sel)
    IN IF hits = <<>> THEN None ELSE Some(hits[1])

\* tag.get_text(strip=True); on None the attribute access raises
get_text(tag) ==
    IF tag.some THEN [raised |-> FALSE, text |-> strip(tag.val.text)]
    ELSE [raised |-> TRUE, text |-> <<>>]

\* tag = soup.find(...); t = tag.get_text(strip=True); if t: data[field] = t
probe_nonempty(soup, sel) ==
    LET tag == find(soup, sel)
    IN IF tag.some /\ get_text(tag).text # <<>>
       THEN [raised |-> get_text(tag).raised, val |-> Some(get_text(tag).text)]
       ELSE [raised |-> FALSE, val |-> None]

\* tag = soup.find(...); if tag: data[field] = tag.get_text(strip=True)
\* (a Tag is truthy whatever its contents)
probe(soup, sel) ==
    LET tag == find(soup, sel)
    IN IF tag.some
       THEN [raised |-> get_text(tag).raised, val |-> Some(get_text(tag).text)]
       ELSE [raised |-> FALSE, val |-> None]

ITEMS == <<" ", "i", "t", "e", "m", "s">>
BAR == <<" ", "|", " ">>

RECURSIVE counter_stats(_)
counter_stats(counters) ==
    IF counters = <<>> THEN <<>>
    ELSE LET txt == strip(counters[1].text)
         IN (IF txt # <<>> THEN <<txt \o ITEMS>> ELSE <<>>)
            \o counter_stats(Tail(counters))

stats_of(soup) ==
    LET follow_section == find(soup, "flex-order-1")
    IN counter_stats(select(soup, "Counter"))
       \o (IF follow_section.some
           THEN <<split_join(follow_section.val.text)>>
           ELSE <<>>)

FieldOrder == <<"url", "name", "title", "location", "about", "experiences">>
Fields == {FieldOrder[i] : i \in 1..Len(FieldOrder)}

parse_generic_profile(html, url) ==
    LET soup == html
        n == probe(soup, "name")
        t == probe(soup, "additionalName")
        a == probe(soup, "p-note")
        l == probe(soup, "homeLocation")
        stats == stats_of(soup)
    IN [raised |-> n.raised \/ t.raised \/ a.raised \/ l.raised,
        data |-> [url |-> url,
                  name |-> n.val,
                  title |-> t.val,
                  location |-> l.val,
                  about |-> a.val,
                  experiences |-> IF stats # <<>> THEN Some(join(BAR, stats)) ELSE None]]

\* ------------------------------------------------------------------ state
VARIABLES
    file,       \* profile_urls.txt: its lines, in order
    pc,         \* where scrape_public_profiles is
    links,      \* the URL list read from the file
    idx,        \* position in links of the URL of the current loop iteration
    attempt,    \* safe_get's loop variable
    failed,     \* the attempts the current safe_get call has logged as failed
    callNavs,   \* driver.get calls made by the current safe_get call
    loaded,     \* the document the browser holds
    html,       \* what safe_get returned
    slept,      \* seconds slept since the last driver.get call
    lastNav,    \* the attempt of the last driver.get call: 0 when it succeeded,
                \*   k when it was the k-th failed attempt for its URL, -1 before any
    profiles,   \* the accumulated records
    fetched,    \* what safe_get returned for each URL processed so far
    table,      \* profiles.csv
    writes,     \* how many times profiles.csv was written
    quitCalls,  \* driver.quit() calls
    phtml,      \* parse_generic_profile called alone: its markup,
    purl,       \*   its url,
    pout,       \*   its result,
    ppc         \*   and whether it has returned

vars == <<file, pc, links, idx, attempt, failed, callNavs, loaded, html, slept,
          lastNav, profiles, fetched, table, writes, quitCalls,
          phtml, purl, pout, ppc>>

batchVars == <<file, pc, links, idx, attempt, failed, callNavs, loaded, html,
               slept, lastNav, profiles, fetched, table, writes, quitCalls>>
parseVars == <<phtml, purl, pout, ppc>>

\* ------------------------------------------------------------------ inputs
\* the lines a file is made of: an empty one, a whitespace-only one, a URL, and
\* another URL inside whitespace
Lines == { <<>>, <<" ">>, <<"b">>, <<" ", "a", " ">> }
Files == SeqsUpTo(Lines, MaxLines)

\* the documents a navigation can load: the empty str and two profile pages
Pages == { <<>>,
           <<[sel |-> "name", text |-> <<"a">>]>>,
           <<[sel |-> "name", text |-> <<" ">>],
             [sel |-> "Counter", text |-> <<"a">>]>> }

Delays == MIN_DELAY..MAX_DELAY

NoNav == -1
NoTable == [columns |-> <<>>, rows |-> <<>>]
NoResult == [raised |-> FALSE, data |-> [url |-> <<>>]]

\* ------------------------------------------------------------------ helpers
\* links = [l for l in f if l.strip()]: the lines kept as they are
ReadLinks_unstripped(f) == SelectSeq(f, LAMBDA l : strip(l) # <<>>)

\* links = [l.strip() for l in f if l.strip()]
ReadLinks(f) ==
    LET kept == SelectSeq(f, LAMBDA l : strip(l) # <<>>)
    IN [i \in 1..Len(kept) |-> strip(kept[i])]

\* time.sleep(attempt)
backoff_single(a) == a

\* time.sleep(2 * attempt)
backoff(a) == 2 * a

\* for attempt in range(1, MAX_RETRIES): one turn fewer
last_attempt_short(a) == a = MAX_RETRIES - 1

\* for attempt in range(1, MAX_RETRIES + 1): the last turn of the loop
last_attempt(a) == a = MAX_RETRIES

\* if html is None:
not_html_none(h) == ~h.some

\* if not html:
not_html(h) == ~h.some \/ h.val = <<>>

\* profiles.append({"url": link})
url_only(link) == [url |-> link]

\* pd.DataFrame(profiles).to_csv(...): the columns are the keys of the
\* records in order of first appearance, a missing or None value is empty
columns_of(records) ==
    SelectSeq(FieldOrder, LAMBDA k : \E i \in 1..Len(records) : k \in DOMAIN records[i])

\* to_csv(..., na_rep="nan")
cell_nan(rec, k) ==
    IF k \notin DOMAIN rec THEN <<"n", "a", "n">>
    ELSE IF k = "url" THEN rec[k]
    ELSE IF rec[k].some THEN rec[k].val ELSE <<"n", "a", "n">>

cell(rec, k) ==
    IF k \notin DOMAIN rec THEN <<>>
    ELSE IF k = "url" THEN rec[k]
    ELSE IF rec[k].some THEN rec[k].val ELSE <<>>

to_csv(records) ==
    LET cols == columns_of(records)
    IN [columns |-> cols,
        rows |-> [i \in 1..Len(records) |->
                    [k \in {cols[j] : j \in 1..Len(cols)} |-> cell(records[i], k)]]]

\* ------------------------------------------------------------------ Init
Init ==
    /\ file \in Files
    /\ pc = "start"
    /\ links = <<>>
    /\ idx = 0
    /\ attempt = 0
    /\ failed = <<>>
    /\ callNavs = 0
    /\ loaded = <<>>
    /\ html = None
    /\ slept = 0
    /\ lastNav = NoNav
    /\ profiles = <<>>
    /\ fetched = <<>>
    /\ table = NoTable
    /\ writes = 0
    /\ quitCalls = 0
    /\ phtml = <<>>
    /\ purl = <<>>
    /\ pout = NoResult
    /\ ppc = "idle"

\* ------------------------------------------------------------------ driver
\* with open("profile_urls.txt") as f: links = [...]
OpenFile ==
    /\ pc = "start"
    /\ links' = ReadLinks(file)
    /\ idx' = 1
    /\ pc' = "loop"
    /\ UNCHANGED <<file, attempt, failed, callNavs, loaded, html, slept, lastNav,
                   profiles, fetched, table, writes, quitCalls, parseVars>>

\* open() raises: the file is missing or unreadable
OpenFileError ==
    /\ pc = "start"
    /\ pc' = "except"
    /\ UNCHANGED <<file, links, idx, attempt, failed, callNavs, loaded, html, slept,
                   lastNav, profiles, fetched, table, writes, quitCalls, parseVars>>

\* for link in links: print("Visiting:", link); safe_get is entered
Visit ==
    /\ pc = "loop"
    /\ idx <= Len(links)
    /\ attempt' = 1
    /\ failed' = <<>>
    /\ callNavs' = 0
    /\ pc' = "get"
    /\ UNCHANGED <<file, links, idx, loaded, html, slept, lastNav, profiles, fetched,
                   table, writes, quitCalls, parseVars>>

\* the print of the loop body raises (closed or non-encoding stdout): the
\* error leaves the loop
VisitError ==
    /\ pc = "loop"
    /\ idx <= Len(links)
    /\ pc' = "except"
    /\ UNCHANGED <<file, links, idx, attempt, failed, callNavs, loaded, html, slept,
                   lastNav, profiles, fetched, table, writes, quitCalls, parseVars>>

\* driver.get(url); random_delay(); return driver.page_source
GetOk ==
    /\ pc = "get"
    /\ \E page \in Pages, d \in Delays :
         /\ loaded' = page
         /\ slept' = d
         /\ html' = Some(page)
         /\ fetched' = Append(fetched, Some(page))
    /\ callNavs' = callNavs + 1
    /\ lastNav' = 0
    /\ pc' = "got"
    /\ UNCHANGED <<file, links, idx, attempt, failed, profiles, table, writes,
                   quitCalls, parseVars>>

\* except Exception: print(...); time.sleep(2 * attempt); then the next turn
\* of the for loop, or return None after the last one
AttemptFailed(sleptBefore) ==
    /\ failed' = Append(failed, attempt)
    /\ slept' = sleptBefore + backoff(attempt)
    /\ callNavs' = callNavs + 1
    /\ lastNav' = attempt
    /\ IF last_attempt(attempt)
       THEN /\ html' = None
            /\ fetched' = Append(fetched, None)
            /\ pc' = "got"
            /\ UNCHANGED attempt
       ELSE /\ attempt' = attempt + 1
            /\ pc' = "get"
            /\ UNCHANGED <<html, fetched>>
    /\ UNCHANGED <<file, links, idx, loaded, profiles, table, writes, quitCalls,
                   parseVars>>

\* driver.get(url) raises
GetFail ==
    /\ pc = "get"
    /\ AttemptFailed(0)

\* driver.get(url) returns, random_delay() sleeps, driver.page_source raises
SourceFail ==
    /\ pc = "get"
    /\ \E d \in Delays : AttemptFailed(d)

\* safe_get's frame is gone once its result is used
Returned ==
    /\ attempt' = 0
    /\ failed' = <<>>
    /\ callNavs' = 0

\* if not html: raise
RecordFailed_abort ==
    /\ pc = "got"
    /\ not_html(html)
    /\ pc' = "except"
    /\ Returned
    /\ UNCHANGED <<file, links, idx, loaded, html, slept, lastNav, profiles, fetched,
                   table, writes, quitCalls, parseVars>>

\* if not html: profiles.append({"url": link}); continue
RecordFailed ==
    /\ pc = "got"
    /\ not_html(html)
    /\ profiles' = Append(profiles, url_only(links[idx]))
    /\ idx' = idx + 1
    /\ pc' = "loop"
    /\ Returned
    /\ UNCHANGED <<file, links, loaded, html, slept, lastNav, fetched, table, writes,
                   quitCalls, parseVars>>

\* data = parse_generic_profile(html, link); profiles.append(data); random_delay()
RecordParsed ==
    /\ pc = "got"
    /\ ~not_html(html)
    /\ LET r == parse_generic_profile(html.val, links[idx])
       IN IF r.raised
          THEN /\ pc' = "except"
               /\ UNCHANGED <<profiles, slept, idx>>
          ELSE /\ profiles' = Append(profiles, r.data)
               /\ \E d \in Delays : slept' = slept + d
               /\ idx' = idx + 1
               /\ pc' = "loop"
    /\ Returned
    /\ UNCHANGED <<file, links, loaded, html, lastNav, fetched, table, writes,
                   quitCalls, parseVars>>

\* the for loop is over: df = pd.DataFrame(profiles); df.to_csv("profiles.csv")
WriteCsv ==
    /\ pc = "loop"
    /\ idx > Len(links)
    /\ table' = to_csv(profiles)
    /\ writes' = writes + 1
    /\ pc' = "saved"
    /\ UNCHANGED <<file, links, idx, attempt, failed, callNavs, loaded, html, slept,
                   lastNav, profiles, fetched, quitCalls, parseVars>>

\* to_csv raises: profiles.csv cannot be opened for writing
WriteCsvError ==
    /\ pc = "loop"
    /\ idx > Len(links)
    /\ pc' = "except"
    /\ UNCHANGED <<file, links, idx, attempt, failed, callNavs, loaded, html, slept,
                   lastNav, profiles, fetched, table, writes, quitCalls, parseVars>>

\* print("Saved extracted data to profiles.csv")
PrintSaved ==
    /\ pc = "saved"
    /\ pc' = "finally"
    /\ UNCHANGED <<file, links, idx, attempt, failed, callNavs, loaded, html, slept,
                   lastNav, profiles, fetched, table, writes, quitCalls, parseVars>>

\* that print raises
PrintSavedError ==
    /\ pc = "saved"
    /\ pc' = "except"
    /\ UNCHANGED <<file, links, idx, attempt, failed, callNavs, loaded, html, slept,
                   lastNav, profiles, fetched, table, writes, quitCalls, parseVars>>

\* driver.quit() at the end of the try body, no finally
Except_no_finally ==
    /\ pc = "except"
    /\ pc' = "done"
    /\ UNCHANGED <<file, links, idx, attempt, failed, callNavs, loaded, html, slept,
                   lastNav, profiles, fetched, table, writes, quitCalls, parseVars>>

\* a handler that saves what was accumulated
Except_saving ==
    /\ pc = "except"
    /\ table' = to_csv(profiles)
    /\ writes' = writes + 1
    /\ pc' = "finally"
    /\ UNCHANGED <<file, links, idx, attempt, failed, callNavs, loaded, html, slept,
                   lastNav, profiles, fetched, quitCalls, parseVars>>

\* except Exception as e: print("Scraper error:", e)
Except ==
    /\ pc = "except"
    /\ pc' = "finally"
    /\ UNCHANGED <<file, links, idx, attempt, failed, callNavs, loaded, html, slept,
                   lastNav, profiles, fetched, table, writes, quitCalls, parseVars>>

\* finally: driver.quit()
Finally ==
    /\ pc = "finally"
    /\ quitCalls' = quitCalls + 1
    /\ pc' = "done"
    /\ UNCHANGED <<file, links, idx, attempt, failed, callNavs, loaded, html, slept,
                   lastNav, profiles, fetched, table, writes, parseVars>>

Next ==
    \/ OpenFile
    \/ OpenFileError
    \/ Visit
    \/ VisitError
    \/ GetOk
    \/ GetFail
    \/ SourceFail
    \/ RecordFailed
    \/ RecordParsed
    \/ WriteCsv
    \/ WriteCsvError
    \/ PrintSaved
    \/ PrintSavedError
    \/ Except
    \/ Finally

Spec == Init /\ [][Next]_vars

\* The script is one thread and every call it makes returns or raises, so a
\* step that can be taken is taken.
FairSpec == Spec /\ WF_vars(Next)

\* ------------------------------------------------------------------ the extractor alone
ParseUrls == {<<"a">>, <<"a", "a">>}

ParseInit ==
    /\ file = <<>>
    /\ pc = "idle"
    /\ links = <<>>
    /\ idx = 0
    /\ attempt = 0
    /\ failed = <<>>
    /\ callNavs = 0
    /\ loaded = <<>>
    /\ html = None
    /\ slept = 0
    /\ lastNav = NoNav
    /\ profiles = <<>>
    /\ fetched = <<>>
    /\ table = NoTable
    /\ writes = 0
    /\ quitCalls = 0
    /\ phtml \in Markups
    /\ purl \in ParseUrls
    /\ pout = NoResult
    /\ ppc = "call"

ParseCall ==
    /\ ppc = "call"
    /\ pout' = parse_generic_profile(phtml, purl)
    /\ ppc' = "returned"
    /\ UNCHANGED <<phtml, purl, batchVars>>

ParseNext == ParseCall

ParseSpec == ParseInit /\ [][ParseNext]_vars

\* ------------------------------------------------------------------ properties
\* l is whitespace only
IsBlank(l) == \A i \in 1..Len(l) : l[i] \in Whitespace

\* u is l without the whitespace around it
Trimmed(l, u) ==
    \E i \in 1..(Len(l) + 1) : \E j \in (i - 1)..Len(l) :
       /\ u = SubSeq(l, i, j)
       /\ \A k \in 1..(i - 1) : l[k] \in Whitespace
       /\ \A k \in (j + 1)..Len(l) : l[k] \in Whitespace
       /\ u # <<>> => (u[1] \notin Whitespace /\ u[Len(u)] \notin Whitespace)

NonBlankLines == SelectSeq(file, LAMBDA l : ~IsBlank(l))

\* C1: whenever profiles.csv has been written it has one row per non-blank
\* line of the input file, in input order, and row i's url is the i-th
\* non-blank line without its surrounding whitespace, whatever the fetches
\* returned and with duplicates kept.
C1_RowsMatchInput ==
    writes > 0 =>
       /\ Len(table.rows) = Len(NonBlankLines)
       /\ \A i \in 1..Len(table.rows) :
             Trimmed(NonBlankLines[i], table.rows[i]["url"])

\* a written table of two rows for the same URL, given once inside
\* whitespace, the first fetch exhausted and the second one parsed
C1_Witness ==
    /\ writes > 0
    /\ Len(file) = 2
    /\ Len(table.rows) = 2
    /\ table.rows[1]["url"] = table.rows[2]["url"]
    /\ file[1] # table.rows[1]["url"]
    /\ ~fetched[1].some
    /\ fetched[2].some /\ fetched[2].val # <<>>

\* C2: a URL for which safe_get exhausted its attempts (it returned None) has
\* a record holding its url and no other value, and in the written table its
\* row has that url and an empty cell in every other column.
C2_ExhaustedRowIsUrlOnly ==
    \A i \in 1..Len(profiles) :
       ~fetched[i].some =>
          /\ profiles[i]["url"] = links[i]
          /\ \A k \in (DOMAIN profiles[i]) \ {"url"} : ~profiles[i][k].some
          /\ writes > 0 =>
                /\ table.rows[i]["url"] = links[i]
                /\ \A k \in (DOMAIN table.rows[i]) \ {"url"} : table.rows[i][k] = <<>>

\* a written six-column table with a row of an exhausted URL
C2_Witness ==
    /\ writes > 0
    /\ Len(table.columns) = Len(FieldOrder)
    /\ \E i \in 1..Len(fetched) : ~fetched[i].some

\* what holds of one safe_get call in every state
C3_CallInv ==
    /\ callNavs <= MAX_RETRIES
    /\ failed = [k \in 1..Len(failed) |-> k]
    /\ pc = "get" => callNavs = Len(failed) /\ attempt = callNavs + 1
    /\ pc = "got" =>
          /\ ~html.some <=> Len(failed) = MAX_RETRIES
          /\ ~html.some <=> lastNav # 0
          /\ html.some => html.val = loaded /\ callNavs = Len(failed) + 1
          /\ ~html.some => callNavs = MAX_RETRIES

\* C3: a safe_get call navigates at most MAX_RETRIES times, returns at the
\* first attempt that succeeds with the markup of the page just loaded,
\* returns None exactly when MAX_RETRIES attempts failed, logged 1..MAX_RETRIES,
\* and never leaves by an exception.
C3_SafeGetBounded ==
    /\ []C3_CallInv
    /\ [][pc = "get" => pc' \in {"get", "got"}]_vars

\* safe_get has returned None after logging the attempts 1, 2, 3
C3_Witness ==
    /\ pc = "got"
    /\ ~html.some
    /\ failed = <<1, 2, 3>>
    /\ callNavs = 3

\* a step that calls driver.get
Navigates == callNavs' = callNavs + 1

\* C4 as stated: between two consecutive navigations the script sleeps within
\* [MIN_DELAY, MAX_DELAY] seconds when the earlier one succeeded, and at least
\* 2 * attempt seconds when it was the attempt-th failed attempt for its URL.
C4_SingleDelayBetweenNavigations ==
    [][Navigates =>
          /\ lastNav = 0 => slept \in MIN_DELAY..MAX_DELAY
          /\ lastNav > 0 => slept >= 2 * lastNav]_vars

\* C4 as amended: after an attempt that succeeded the sleep before the next
\* navigation is one pause within [MIN_DELAY, MAX_DELAY] when the page source
\* was empty, and the sum of two such pauses, so within
\* [2 * MIN_DELAY, 2 * MAX_DELAY], when it was not; after the attempt-th
\* failed attempt it is at least 2 * attempt seconds.
C4_DelayBetweenNavigations ==
    [][Navigates =>
          /\ (lastNav = 0 /\ fetched[Len(fetched)].val = <<>>) =>
                slept \in MIN_DELAY..MAX_DELAY
          /\ (lastNav = 0 /\ fetched[Len(fetched)].val # <<>>) =>
                slept \in (2 * MIN_DELAY)..(2 * MAX_DELAY)
          /\ lastNav > 0 => slept >= 2 * lastNav]_vars

\* the next URL is about to be loaded after a successful fetch and two pauses
\* of MAX_DELAY seconds
C4_Witness ==
    /\ pc = "get"
    /\ callNavs = 0
    /\ lastNav = 0
    /\ slept = 2 * MAX_DELAY

\* C5: every run ends with the browser session released, on every exit path:
\* driver.quit() is called exactly once, and no navigation follows it.
C5_SessionReleased ==
    /\ <>(pc = "done")
    /\ [](quitCalls <= 1)
    /\ [](pc = "done" <=> quitCalls = 1)
    /\ [][quitCalls > 0 =>
            callNavs' = callNavs /\ loaded' = loaded /\ fetched' = fetched]_vars

\* the run is over, the session released, after an error left the loop with
\* one URL fetched and nothing written
C5_Witness ==
    /\ pc = "done"
    /\ quitCalls = 1
    /\ writes = 0
    /\ Len(fetched) = 1
    /\ Len(links) = 2

\* C6: every written table has the columns url, name, title, location, about,
\* experiences, in that order, whatever the fetches returned.
C6_FixedColumns ==
    writes > 0 => table.columns = FieldOrder

\* the record a URL gets from what was fetched for it alone
RecordOf(link, got) ==
    IF got.some /\ got.val # <<>>
    THEN parse_generic_profile(got.val, link).data
    ELSE [url |-> link]

\* C7: a failed navigation attempt never aborts the batch: the step that
\* fails it stays inside safe_get and touches no record, an exhausted URL gets
\* its URL-only record and the loop moves to the next URL, and every record is
\* the one its own URL's fetch gives, whatever happened to the other URLs.
C7_FailureIsLocal ==
    /\ [](\A i \in 1..Len(profiles) : profiles[i] = RecordOf(links[i], fetched[i]))
    /\ [][Len(failed') > Len(failed) =>
            /\ pc' \in {"get", "got"}
            /\ profiles' = profiles
            /\ idx' = idx]_vars
    /\ [][(pc = "got" /\ ~html.some) =>
            /\ pc' = "loop"
            /\ idx' = idx + 1
            /\ profiles' = Append(profiles, [url |-> links[idx]])]_vars

\* the first URL was exhausted and the second one, fetched after it, has its
\* parsed record
C7_Witness ==
    /\ Len(profiles) = 2
    /\ ~fetched[1].some
    /\ DOMAIN profiles[1] = {"url"}
    /\ fetched[2].some /\ fetched[2].val # <<>>
    /\ profiles[2]["name"] = Some(<<"a">>)
    /\ lastNav = 0

\* the first element of the markup matching sel, 0 when there is none
FirstMatch(markup, sel) ==
    IF \E i \in 1..Len(markup) : markup[i].sel = sel
    THEN CHOOSE i \in 1..Len(markup) :
            /\ markup[i].sel = sel
            /\ \A j \in 1..(i - 1) : markup[j].sel # sel
    ELSE 0

SelectorOf == [name |-> "name", title |-> "additionalName",
               about |-> "p-note", location |-> "homeLocation"]

\* C8 as stated: the record has the input url, and each of name, title, about
\* and location is non-null exactly when its element exists and has non-empty
\* text once stripped; the extractor never raises.
C8_NonNullIffNonEmptyText ==
    ppc = "returned" =>
       /\ ~pout.raised
       /\ pout.data["url"] = purl
       /\ \A f \in DOMAIN SelectorOf :
             LET i == FirstMatch(phtml, SelectorOf[f])
             IN pout.data[f].some <=> (i > 0 /\ ~IsBlank(phtml[i].text))

\* C8 as amended: the record has the input url, and each of name, title,
\* about and location, independently of the others, is non-null exactly when
\* its element exists, and is then the element's text without the whitespace
\* around it, which may be empty; the extractor never raises.
C8_NonNullIffElementExists ==
    ppc = "returned" =>
       /\ ~pout.raised
       /\ pout.data["url"] = purl
       /\ \A f \in DOMAIN SelectorOf :
             LET i == FirstMatch(phtml, SelectorOf[f])
             IN /\ pout.data[f].some <=> i > 0
                /\ i > 0 => Trimmed(phtml[i].text, pout.data[f].val)

\* a markup whose name element holds only whitespace and which has no
\* location element: name is the empty str, location is None
C8_Witness ==
    /\ ppc = "returned"
    /\ FirstMatch(phtml, "name") > 0
    /\ phtml[FirstMatch(phtml, "name")].text = <<" ">>
    /\ pout.data["name"] = Some(<<>>)
    /\ pout.data["location"] = None

\* C9: profiles.csv is written at most once, and only when every URL of the
\* list has its record; once an error has left the try body nothing more is
\* fetched, recorded or written, so a run whose error came before the write
\* ends with no file.
C9_WrittenOnceAtEnd ==
    /\ [](writes <= 1)
    /\ [](writes = 0 => table = NoTable)
    /\ [][writes' # writes =>
            /\ pc = "loop"
            /\ idx > Len(links)
            /\ Len(profiles) = Len(links)
            /\ table' = to_csv(profiles)]_vars
    /\ [][(pc \in {"except", "finally", "done"}) =>
            /\ writes' = writes
            /\ table' = table
            /\ profiles' = profiles
            /\ fetched' = fetched
            /\ pc' \in {"finally", "done"}]_vars

\* a run that ended with one of two URLs recorded and no file
C9_Witness ==
    /\ pc = "done"
    /\ writes = 0
    /\ Len(profiles) = 1
    /\ Len(links) = 2

\* where the processing of the i-th URL is
Status(i) ==
    IF i <= Len(profiles)
    THEN IF DOMAIN profiles[i] = {"url"} THEN "FetchFailed" ELSE "Extracted"
    ELSE IF i = idx /\ pc \in {"get", "got"} THEN "Fetching" ELSE "Pending"

StatusSteps == { <<"Pending", "Pending">>, <<"Pending", "Fetching">>,
                 <<"Fetching", "Fetching">>, <<"Fetching", "Extracted">>,
                 <<"Fetching", "FetchFailed">>, <<"Extracted", "Extracted">>,
                 <<"FetchFailed", "FetchFailed">> }

\* C10 as stated: a URL ends Extracted whenever safe_get returned markup for
\* it, the empty markup included, and ends FetchFailed only when safe_get
\* returned None.
C10_ExtractedIffMarkup ==
    \A i \in 1..Len(profiles) :
       /\ fetched[i].some => Status(i) = "Extracted"
       /\ Status(i) = "FetchFailed" => ~fetched[i].some

\* C10 as amended: each URL goes Pending -> Fetching -> Extracted or
\* FetchFailed and stays there; it ends Extracted, with the extractor's
\* record, exactly when safe_get returned non-empty markup, and FetchFailed,
\* with the URL-only record, exactly when safe_get returned None or the empty
\* markup.
C10_StateMachine ==
    /\ [](\A i \in 1..Len(profiles) :
             /\ Status(i) = "Extracted" <=> (fetched[i].some /\ fetched[i].val # <<>>)
             /\ Status(i) = "Extracted" =>
                   profiles[i] = parse_generic_profile(fetched[i].val, links[i]).data
             /\ Status(i) = "FetchFailed" <=> (~fetched[i].some \/ fetched[i].val = <<>>)
             /\ Status(i) = "FetchFailed" => profiles[i] = [url |-> links[i]])
    /\ [][\A i \in 1..Len(file) : <<Status(i), Status(i)'>> \in StatusSteps]_vars

\* a URL for which safe_get returned the empty markup ended FetchFailed
C10_Witness ==
    \E i \in 1..Len(profiles) :
       /\ fetched[i] = Some(<<>>)
       /\ Status(i) = "FetchFailed"

====
